---- MODULE Spec2Model ----
(***************************************************************************)
(* Corroboration and staleness engine of the knowledge-graph ingestor      *)
(* (src/pipeline.py), over an abstract transactional property store.       *)
(*                                                                         *)
(* The store is a graph: nodes keyed by <<label, key>>, FROM_SOURCE edges  *)
(* keyed by <<node, url>>, and the remaining relationships as triples.     *)
(* Every Cypher statement of the pipeline is a function from the database  *)
(* it reads to the writes it makes; a package's transaction function is    *)
(* the sequence of statements it issues (its plan).                        *)
(***************************************************************************)
EXTENDS Integers, Sequences, FiniteSets, TLC

VARIABLES store, tx, last, snap, grounding, history, run, projection

vars == <<store, tx, last, snap, grounding, history, run, projection>>

(***************************************************************************)
(* Bounds of the model                                                     *)
(***************************************************************************)
\* retrieved_at ranges over 1..MaxTime
MaxTime == 2

\* the lists of a tree given to the grounder have at most MaxItems items
MaxItems == 2

(***************************************************************************)
(* ontology.py: field values, tagged by their runtime type                 *)
(***************************************************************************)
NoneV == [tag |-> "None"]

ProvableFact(v, e) == [tag |-> "Fact", value |-> v, evidence |-> e]

EnumV(s) == [tag |-> "Enum", value |-> s]

Scalar(x) == [tag |-> "Scalar", value |-> x]

ListV(items) == [tag |-> "List", items |-> items]

IsTagged(x, t) == "tag" \in DOMAIN x /\ x.tag = t

IsNone(x) == IsTagged(x, "None")

ProvenanceModel(url, retrieved_at, trust_score) ==
    [url |-> url, retrieved_at |-> retrieved_at, trust_score |-> trust_score]

ProductModel(name, description) == [name |-> name, description |-> description]

ConditionModel(type, min_amount, max_amount, term_years, interest_rate) ==
    [type |-> type, min_amount |-> min_amount, max_amount |-> max_amount,
     term_years |-> term_years, interest_rate |-> interest_rate]

FAQModel(question, answer) == [question |-> question, answer |-> answer]

EmployeeModel(name, role_type) ==
    [name |-> name, email |-> NoneV, phone |-> NoneV, role_type |-> role_type]

BranchModel(name, employees) ==
    [name |-> name, address |-> NoneV, employees |-> ListV(employees)]

KnowledgeGraphData(product, product_type, risk_class, conditions, faqs) ==
    [product |-> product,
     product_type |-> IF IsNone(product_type) THEN NoneV ELSE [name |-> product_type],
     risk_class |-> IF IsNone(risk_class) THEN NoneV ELSE [risk_class |-> risk_class],
     conditions |-> conditions, faqs |-> faqs]

BranchData(branch) == [branch |-> branch]

ExtractionPackage(kind, metadata, data) ==
    [kind |-> kind, metadata |-> metadata, data |-> data]

(***************************************************************************)
(* config.py                                                               *)
(***************************************************************************)
WwwPrefix == "https://www.vblh.de/"

InternPrefix == "https://intern.vblh.de/"

\* the model's URLs, each with the domain prefix it starts with
UrlPrefix ==
    [u \in {"https://www.vblh.de/a", "https://www.vblh.de/b",
            "https://www.vblh.de/filiale",
            "https://intern.vblh.de/sparbrief"} |->
        IF u = "https://intern.vblh.de/sparbrief" THEN InternPrefix ELSE WwwPrefix]

StartsWith(url, prefix) == url \in DOMAIN UrlPrefix /\ UrlPrefix[url] = prefix

\* trust scores in hundredths
SOURCE_TRUST_SCORES == [www |-> 90, intern |-> 95, default |-> 50]

get_trust_score(url) ==
    IF StartsWith(url, WwwPrefix) THEN SOURCE_TRUST_SCORES.www
    ELSE IF StartsWith(url, InternPrefix) THEN SOURCE_TRUST_SCORES.intern
    ELSE SOURCE_TRUST_SCORES.default

(***************************************************************************)
(* Python dicts: the non-None entries (vals) and the keys mapped to None   *)
(***************************************************************************)
EmptyFn == [k \in {} |-> 0]

EmptyDict == [vals |-> EmptyFn, nulls |-> {}]

\* f updated by g: g's value where g has one, else f's
Override(f, g) == g @@ f

\* d[k] = v for a value v that is not None
DictPut(d, k, v) ==
    [vals |-> Override(d.vals, k :> v), nulls |-> d.nulls \ {k}]

(***************************************************************************)
(* 4.4 property projection                                                 *)
(***************************************************************************)
FieldsTagged(model, tags) ==
    {f \in DOMAIN model : "tag" \in DOMAIN model[f] /\ model[f].tag \in tags}

get_node_props(model) ==
    IF IsNone(model) THEN EmptyDict
    ELSE [vals |-> [f \in FieldsTagged(model, {"Fact", "Enum", "Scalar"}) |-> model[f].value],
          nulls |-> FieldsTagged(model, {"None"})]

get_rel_props(model) ==
    IF IsNone(model) THEN EmptyFn
    ELSE LET F == FieldsTagged(model, {"Fact"})
         IN  [k \in {f \o "_evidence" : f \in F} |->
                 model[CHOOSE f \in F : f \o "_evidence" = k].evidence]

(***************************************************************************)
(* The property store                                                      *)
(***************************************************************************)
\* nodes and edges hold the properties of the node of a (label, key) and of
\* the FROM_SOURCE relationship of an (entity, source); node_count and
\* edge_count the number of such nodes and relationships in the database
EmptyDb ==
    [nodes |-> EmptyFn, edges |-> EmptyFn, rels |-> EmptyFn,
     node_count |-> EmptyFn, edge_count |-> EmptyFn]

EmptyWrites ==
    [nodes |-> EmptyFn, edges |-> EmptyFn, rels |-> EmptyFn, del |-> {},
     node_count |-> EmptyFn, edge_count |-> EmptyFn]

\* relationships are counted: rels maps <<type, from, to>> to the number of
\* relationships of that type between the two nodes
Without(rels, del) == [r \in DOMAIN rels \ del |-> rels[r]]

AddRels(rels, more) ==
    [r \in DOMAIN rels \cup DOMAIN more |->
        (IF r \in DOMAIN rels THEN rels[r] ELSE 0)
        + (IF r \in DOMAIN more THEN more[r] ELSE 0)]

\* MERGE of the relationships rs: one is created where there is none
MergeRels(db, rs) == [r \in rs \ DOMAIN db.rels |-> 1]

\* the database after the writes are applied: the deletions, then the rest
Apply(db, w) ==
    [nodes |-> Override(db.nodes, w.nodes),
     edges |-> Override(db.edges, w.edges),
     rels  |-> AddRels(Without(db.rels, w.del), w.rels),
     node_count |-> AddRels(db.node_count, w.node_count),
     edge_count |-> AddRels(db.edge_count, w.edge_count)]

\* writes w followed by writes d
ThenWrites(w, d) ==
    [nodes |-> Override(w.nodes, d.nodes),
     edges |-> Override(w.edges, d.edges),
     rels  |-> AddRels(Without(w.rels, d.del), d.rels),
     del   |-> w.del \cup d.del,
     node_count |-> AddRels(w.node_count, d.node_count),
     edge_count |-> AddRels(w.edge_count, d.edge_count)]

Node(label, key) == <<label, key>>

EdgesOf(db, n) == {k \in DOMAIN db.edges : k[1] = n}

ActiveEdgesOf(db, n) == {k \in EdgesOf(db, n) : db.edges[k].is_active}

(***************************************************************************)
(* 4.4 staleness sweep (pipeline.py 229, 271, 388-391)                     *)
(***************************************************************************)
SweepWritesAnySource(db, url, labels) ==
    [EmptyWrites EXCEPT !.edges =
        [k \in {e \in DOMAIN db.edges :
                    e[1][1] \in labels /\ db.edges[e].is_active} |->
            [db.edges[k] EXCEPT !.is_active = FALSE]]]

\* MATCH (n:labels)-[r:FROM_SOURCE {is_active: true}]->(q:Source {url})
\* SET r.is_active = false
SweepWrites(db, url, labels) ==
    [EmptyWrites EXCEPT !.edges =
        [k \in {e \in DOMAIN db.edges :
                    e[1][1] \in labels /\ e[2] = url /\ db.edges[e].is_active} |->
            [db.edges[k] EXCEPT !.is_active = FALSE]]]

(***************************************************************************)
(* 4.4 corroborator (_tx_corroborate_and_ingest)                           *)
(***************************************************************************)
\* the rows of query_find_old: active edges of the node to a source other
\* than url
FindOld(db, n, url) ==
    {k \in ActiveEdgesOf(db, n) : k[2] # url}

\* result.single(): None without a row, else a row (the first the store
\* returns when there are several; which one is not determined)
SingleOld(db, n, url) ==
    IF FindOld(db, n, url) = {} THEN {NoneV}
    ELSE {[old_ts |-> db.edges[k].retrieved_at,
           old_trust |-> db.edges[k].trust_score] : k \in FindOld(db, n, url)}

IsWinnerTrustFirst(meta, old_fact) ==
    IF IsNone(old_fact) THEN TRUE
    ELSE IF meta.trust_score > old_fact.old_trust THEN TRUE
    ELSE IF meta.trust_score = old_fact.old_trust
         THEN meta.retrieved_at >= old_fact.old_ts
    ELSE FALSE

IsWinnerStrictTrust(meta, old_fact) ==
    IF IsNone(old_fact) THEN TRUE
    ELSE IF meta.retrieved_at > old_fact.old_ts THEN TRUE
    ELSE IF meta.retrieved_at = old_fact.old_ts
         THEN meta.trust_score > old_fact.old_trust
    ELSE FALSE

IsWinnerNeedsOld(meta, old_fact) ==
    IF IsNone(old_fact) THEN meta.retrieved_at > 1
    ELSE IF meta.retrieved_at > old_fact.old_ts THEN TRUE
    ELSE IF meta.retrieved_at = old_fact.old_ts
         THEN meta.trust_score >= old_fact.old_trust
    ELSE FALSE

IsWinnerLatestOnly(meta, old_fact) ==
    IF IsNone(old_fact) THEN TRUE
    ELSE meta.retrieved_at > old_fact.old_ts

\* is_candidate_winner (189-197)
IsCandidateWinner(meta, old_fact) ==
    IF IsNone(old_fact) THEN TRUE
    ELSE IF meta.retrieved_at > old_fact.old_ts THEN TRUE
    ELSE IF meta.retrieved_at = old_fact.old_ts
         THEN meta.trust_score >= old_fact.old_trust
    ELSE FALSE

\* new_rel_props with retrieved_at, trust_score (178-179) and is_active
\* (210, 217)
RelPropsWith(rel_props, meta, active) ==
    Override(rel_props,
             [retrieved_at |-> meta.retrieved_at,
              trust_score |-> meta.trust_score,
              is_active |-> active])

\* MERGE of the FROM_SOURCE relationship k: one is created where there is
\* none
MergeEdge(db, k) == [e \in {k} \ DOMAIN db.edges |-> 1]

MergeWritesCreating(db, s) ==
    LET q == Node("Source", s.meta.url)
        n == Node(s.label, s.key)
    IN  [EmptyWrites EXCEPT
            !.nodes = [k \in {x \in {q, n} : x \notin DOMAIN db.nodes} |->
                IF k = q THEN [url |-> s.meta.url] ELSE (s.node_key :> s.key)],
            !.node_count = [k \in {q, n} |-> 1]]

\* MERGE (q:Source {url}) MERGE (n:label {node_key: key}) (199-200)
MergeWrites(db, s) ==
    LET q == Node("Source", s.meta.url)
        n == Node(s.label, s.key)
        absent == {x \in {q, n} : x \notin DOMAIN db.nodes}
    IN  [EmptyWrites EXCEPT
            !.nodes = [k \in absent |->
                IF k = q THEN [url |-> s.meta.url] ELSE (s.node_key :> s.key)],
            !.node_count = [k \in absent |-> 1]]

WonWritesKeepingOthers(db, s) ==
    LET n == Node(s.label, s.key)
    IN  [EmptyWrites EXCEPT
            !.nodes = (n :> s.node_props.vals),
            !.edges = (<<n, s.meta.url>> :> RelPropsWith(s.rel_props, s.meta, TRUE))]

WonWritesMerging(db, s) ==
    LET n == Node(s.label, s.key)
        own == <<n, s.meta.url>>
        r_new == RelPropsWith(s.rel_props, s.meta, TRUE)
    IN  [EmptyWrites EXCEPT
            !.nodes = (n :> Override(db.nodes[n], s.node_props.vals)),
            !.edges = Override(
                [k \in ActiveEdgesOf(db, n) |->
                    [db.edges[k] EXCEPT !.is_active = FALSE]],
                own :> IF own \in DOMAIN db.edges
                       THEN Override(db.edges[own], r_new) ELSE r_new)]

WonWritesEdgeOnly(db, s) ==
    LET n == Node(s.label, s.key)
    IN  [EmptyWrites EXCEPT
            !.edges = Override(
                [k \in ActiveEdgesOf(db, n) |->
                    [db.edges[k] EXCEPT !.is_active = FALSE]],
                <<n, s.meta.url>> :> RelPropsWith(s.rel_props, s.meta, TRUE))]

\* SET n = $node_props, r_alt.is_active = false (204-208), then
\* MERGE (n)-[r_new:FROM_SOURCE]->(q) SET r_new = $rel_props (210-214).
\* A None entry of the map is no property of the node.
WonWrites(db, s) ==
    LET n == Node(s.label, s.key)
    IN  [EmptyWrites EXCEPT
            !.nodes = (n :> s.node_props.vals),
            !.edges = Override(
                [k \in ActiveEdgesOf(db, n) |->
                    [db.edges[k] EXCEPT !.is_active = FALSE]],
                <<n, s.meta.url>> :> RelPropsWith(s.rel_props, s.meta, TRUE)),
            !.edge_count = MergeEdge(db, <<n, s.meta.url>>)]

LostWritesSnapshot(db, s) ==
    LET n == Node(s.label, s.key)
    IN  [EmptyWrites EXCEPT
            !.nodes = (n :> s.node_props.vals),
            !.edges = (<<n, s.meta.url>> :> RelPropsWith(s.rel_props, s.meta, FALSE))]

LostWritesFlipping(db, s) ==
    LET n == Node(s.label, s.key)
    IN  [EmptyWrites EXCEPT
            !.edges = Override(
                [k \in ActiveEdgesOf(db, n) |->
                    [db.edges[k] EXCEPT !.is_active = FALSE]],
                <<n, s.meta.url>> :> RelPropsWith(s.rel_props, s.meta, FALSE))]

\* MERGE (n)-[r_new:FROM_SOURCE]->(q) SET r_new = $rel_props (217-221)
LostWrites(db, s) ==
    LET n == Node(s.label, s.key)
    IN  [EmptyWrites EXCEPT
            !.edges = (<<n, s.meta.url>> :> RelPropsWith(s.rel_props, s.meta, FALSE)),
            !.edge_count = MergeEdge(db, <<n, s.meta.url>>)]

\* the writes of one corroborate call, given the row old_fact it read
CorroborateWrites(db, s, old_fact) ==
    LET m == MergeWrites(db, s)
    IN  IF IsCandidateWinner(s.meta, old_fact)
        THEN ThenWrites(m, WonWrites(Apply(db, m), s))
        ELSE ThenWrites(m, LostWrites(Apply(db, m), s))

(***************************************************************************)
(* relationship statements                                                 *)
(***************************************************************************)
\* MATCH (a) [, (b)] MERGE [(b)] MERGE (a)-[:type]->(b): s.match lists the
\* nodes that must exist; a merged end node is created with its key.
MergeRelWrites(db, s) ==
    IF \E x \in s.match : x \notin DOMAIN db.nodes THEN EmptyWrites
    ELSE [EmptyWrites EXCEPT
            !.nodes = [k \in {x \in {s.to} : x \notin DOMAIN db.nodes} |->
                          (s.to_key :> s.to[2])],
            !.node_count = [k \in {x \in {s.to} : x \notin DOMAIN db.nodes} |-> 1],
            !.rels = MergeRels(db, {<<s.type, s.from, s.to>>})]

(***************************************************************************)
(* 4.5 inference (create_inferred_relationships)                           *)
(***************************************************************************)
DeleteAdvisesNothing(db) == EmptyWrites

\* MATCH ()-[r:ADVISES_ON]->() DETACH DELETE r (317)
DeleteAdvisesWrites(db) ==
    [EmptyWrites EXCEPT !.del = {r \in DOMAIN db.rels : r[1] = "ADVISES_ON"}]

ActiveWithRel(db, label, type, to) ==
    {n \in DOMAIN db.nodes :
        /\ n[1] = label
        /\ ActiveEdgesOf(db, n) # {}
        /\ <<type, n, to>> \in DOMAIN db.rels}

\* the MERGE (m)-[r:ADVISES_ON]->(p) query (319-326)
CreateAdvisesWrites(db) ==
    [EmptyWrites EXCEPT !.rels = MergeRels(db,
        {<<"ADVISES_ON", m, p>> :
            m \in ActiveWithRel(db, "Employee", "HAS_ROLE_TYPE", Node("RoleType", "Advisor")),
            p \in ActiveWithRel(db, "Product", "HAS_PRODUCT_TYPE",
                                Node("ProductType", "InterestProduct"))})]

(***************************************************************************)
(* Statements                                                              *)
(***************************************************************************)
SweepStmt(url, labels) == [op |-> "sweep", url |-> url, labels |-> labels]

CorroborateStmt(label, node_key, key, node_props, rel_props, meta) ==
    [op |-> "corroborate", label |-> label, node_key |-> node_key, key |-> key,
     node_props |-> node_props, rel_props |-> rel_props, meta |-> meta]

MergeRelStmt(type, from, to, to_key, match) ==
    [op |-> "merge_rel", type |-> type, from |-> from, to |-> to,
     to_key |-> to_key, match |-> match]

DeleteAdvisesStmt == [op |-> "delete_advises"]

CreateAdvisesStmt == [op |-> "create_advises"]

BeginStmt == [op |-> "begin"]

CommitStmt == [op |-> "commit"]

StmtWritesAppending(db, s, old_fact) ==
    CASE s.op = "sweep" -> SweepWrites(db, s.url, s.labels)
      [] s.op = "corroborate" -> CorroborateWrites(db, s, old_fact)
      [] s.op = "merge_rel" -> MergeRelWrites(db, s)
      [] s.op = "create_advises" ->
            [EmptyWrites EXCEPT !.rels =
                [r \in DOMAIN CreateAdvisesWrites(
                            Apply(db, DeleteAdvisesWrites(db))).rels |-> 1]]
      [] OTHER -> EmptyWrites

\* the writes of statement s on database db; old_fact is the row a
\* corroborate statement read
StmtWrites(db, s, old_fact) ==
    CASE s.op = "sweep" -> SweepWrites(db, s.url, s.labels)
      [] s.op = "corroborate" -> CorroborateWrites(db, s, old_fact)
      [] s.op = "merge_rel" -> MergeRelWrites(db, s)
      [] s.op = "delete_advises" -> DeleteAdvisesWrites(db)
      [] s.op = "create_advises" -> CreateAdvisesWrites(db)
      [] OTHER -> EmptyWrites

\* the rows a statement's leading read can return
StmtReads(db, s) ==
    IF s.op = "corroborate"
    THEN SingleOld(db, Node(s.label, s.key), s.meta.url)
    ELSE {NoneV}


(***************************************************************************)
(* Transaction functions: the statements a package issues, in order        *)
(***************************************************************************)
RECURSIVE Flatten(_)
Flatten(seqs) ==
    IF seqs = <<>> THEN <<>> ELSE Head(seqs) \o Flatten(Tail(seqs))

\* str() of an Optional[int] inside an f-string
Str(x) == IF IsNone(x) THEN "None" ELSE ToString(x.value)

\* truthiness of an Optional[List]
ItemsOf(x) == IF IsNone(x) THEN <<>> ELSE x.items

\* one pass of the conditions loop (247-253)
ConditionStmts(condition, product_name, meta) ==
    IF IsNone(condition) \/ IsNone(condition.interest_rate) THEN <<>>
    ELSE LET key == product_name \o "_" \o Str(condition.min_amount)
                        \o "_" \o Str(condition.term_years)
         IN  << CorroborateStmt("Condition", "key", key,
                    DictPut(get_node_props(condition), "key", key),
                    get_rel_props(condition), meta),
                MergeRelStmt("HAS_CONDITION", Node("Product", product_name),
                    Node("Condition", key), "key",
                    {Node("Product", product_name), Node("Condition", key)}) >>

\* one pass of the faqs loop (256-262)
FaqStmts(faq, product_name, meta) ==
    IF IsNone(faq) \/ IsNone(faq.question) THEN <<>>
    ELSE LET question_value == faq.question.value
         IN  << CorroborateStmt("FAQ", "question", question_value,
                    DictPut(get_node_props(faq), "question", question_value),
                    get_rel_props(faq), meta),
                MergeRelStmt("HAS_FAQ", Node("Product", product_name),
                    Node("FAQ", question_value), "question",
                    {Node("Product", product_name), Node("FAQ", question_value)}) >>

\* _tx_ingest_product_package (223-262)
ProductTxStmts(package) ==
    LET data == package.data
        meta == package.metadata
        sweep == << SweepStmt(meta.url, {"Product", "Condition", "FAQ"}) >>
    IN  IF IsNone(data.product) \/ IsNone(data.product.name) THEN sweep
        ELSE LET product_name == data.product.name.value
                 p == Node("Product", product_name)
             IN  sweep
                 \o << CorroborateStmt("Product", "name", product_name,
                          DictPut(get_node_props(data.product), "name", product_name),
                          get_rel_props(data.product), meta) >>
                 \o (IF IsNone(data.product_type) \/ IsNone(data.product_type.name)
                     THEN <<>>
                     ELSE << MergeRelStmt("HAS_PRODUCT_TYPE", p,
                                Node("ProductType", data.product_type.name.value),
                                "name", {p}) >>)
                 \o (IF IsNone(data.risk_class) \/ IsNone(data.risk_class.risk_class)
                     THEN <<>>
                     ELSE << MergeRelStmt("HAS_RISK_CLASS", p,
                                Node("RiskClass", data.risk_class.risk_class.value),
                                "risk_class", {p}) >>)
                 \o Flatten([i \in DOMAIN ItemsOf(data.conditions) |->
                        ConditionStmts(ItemsOf(data.conditions)[i], product_name, meta)])
                 \o Flatten([i \in DOMAIN ItemsOf(data.faqs) |->
                        FaqStmts(ItemsOf(data.faqs)[i], product_name, meta)])

\* one pass of the employees loop (281-291)
EmployeeStmts(employee, branch_name, meta) ==
    IF IsNone(employee) \/ IsNone(employee.name) THEN <<>>
    ELSE LET employee_name == employee.name.value
             m == Node("Employee", employee_name)
         IN  << CorroborateStmt("Employee", "name", employee_name,
                    DictPut(get_node_props(employee), "name", employee_name),
                    get_rel_props(employee), meta),
                MergeRelStmt("WORKS_IN", m, Node("Branch", branch_name), "name",
                    {m, Node("Branch", branch_name)}) >>
             \o (IF IsNone(employee.role_type) THEN <<>>
                 ELSE << MergeRelStmt("HAS_ROLE_TYPE", m,
                            Node("RoleType", employee.role_type.value), "name", {m}) >>)

\* _tx_ingest_branch_package (264-291)
BranchTxStmts(package) ==
    LET data == package.data
        meta == package.metadata
        sweep == << SweepStmt(meta.url, {"Branch", "Employee"}) >>
    IN  IF IsNone(data.branch) \/ IsNone(data.branch.name) THEN sweep
        ELSE LET branch_name == data.branch.name.value
             IN  sweep
                 \o << CorroborateStmt("Branch", "name", branch_name,
                          DictPut(get_node_props(data.branch), "name", branch_name),
                          get_rel_props(data.branch), meta) >>
                 \o Flatten([i \in DOMAIN ItemsOf(data.branch.employees) |->
                        EmployeeStmts(ItemsOf(data.branch.employees)[i],
                                      branch_name, meta)])

\* session.execute_write(f, ...): f's statements in one transaction
ExecuteWrite(stmts) == << BeginStmt >> \o stmts \o << CommitStmt >>

\* ingest_product_package (293-298)
ingest_product_package(package) == ExecuteWrite(ProductTxStmts(package))

\* ingest_branch_package (300-305)
ingest_branch_package(package) == ExecuteWrite(BranchTxStmts(package))

\* create_inferred_relationships (310-333): two auto-commit statements
create_inferred_relationships == << DeleteAdvisesStmt, CreateAdvisesStmt >>

(***************************************************************************)
(* ingest_fake_data (346-414)                                              *)
(***************************************************************************)
FakeUrl == "https://intern.vblh.de/sparbrief"

\* fake_time_str, as a point of the model's time line
FakeTime == 1

FakeKey == "Volksbank Sparbrief_5000_6"

FakeProductName == "Volksbank Sparbrief"

FakeMeta == ProvenanceModel(FakeUrl, FakeTime, get_trust_score(FakeUrl))

FakeCondition ==
    ConditionModel(ProvableFact("Savings Bond", "Fake Entry"),
                   Scalar(5000), Scalar(49999), Scalar(6),
                   ProvableFact("2.50%", "Fake Entry: 2.50% (internal)"))

\* an auto-commit sweep, the corroborator in a transaction of its own, an
\* auto-commit link
ingest_fake_data ==
    << SweepStmt(FakeUrl, {"Condition"}) >>
    \o ExecuteWrite(<< CorroborateStmt("Condition", "key", FakeKey,
                          DictPut(get_node_props(FakeCondition), "key", FakeKey),
                          get_rel_props(FakeCondition), FakeMeta) >>)
    \o << MergeRelStmt("HAS_CONDITION", Node("Product", FakeProductName),
              Node("Condition", FakeKey), "key",
              {Node("Product", FakeProductName), Node("Condition", FakeKey)}) >>


(***************************************************************************)
(* Inputs                                                                  *)
(***************************************************************************)
UrlA == "https://www.vblh.de/a"

UrlB == "https://www.vblh.de/b"

FilialUrl == "https://www.vblh.de/filiale"

TARGET_URLS == {UrlA, UrlB}

FILIAL_URLS == {FilialUrl}

Times == 1..MaxTime

NameFact == ProvableFact(FakeProductName, "name snippet")

Products ==
    { ProductModel(NoneV, NoneV),
      ProductModel(NameFact, NoneV),
      ProductModel(NameFact, ProvableFact("a savings bond", "description snippet")) }

ProductTypes == {EnumV("InterestProduct"), EnumV("CheckingAccount")}

\* the condition of the fake entry as a page states it, and one whose
\* interest rate did not survive grounding
PageCondition ==
    ConditionModel(NoneV, Scalar(5000), NoneV, Scalar(6),
                   ProvableFact("2.25%", "rate snippet"))

UngroundedCondition ==
    ConditionModel(NoneV, Scalar(5000), NoneV, Scalar(6), NoneV)

Faqs == { FAQModel(ProvableFact("How long?", "question snippet"),
                   ProvableFact("Six years.", "answer snippet")) }

Employees ==
    { EmployeeModel(ProvableFact("Erika", "employee snippet"), EnumV(r)) :
        r \in {"Advisor", "Service"} }

Branches ==
    { BranchModel(NoneV, <<>>),
      BranchModel(ProvableFact("Soltau", "branch snippet"), <<>>) }
    \cup { BranchModel(ProvableFact("Soltau", "branch snippet"), <<e>>) : e \in Employees }

\* packages as run_ingestion builds them (main.py 33-36, 57-60): the trust
\* score is that of the URL; the branch pages are read last
ProductPackages ==
    { ExtractionPackage("product",
          ProvenanceModel(UrlA, t, get_trust_score(UrlA)),
          KnowledgeGraphData(ProductModel(NameFact, NoneV), pt, EnumV("1"), cs, NoneV)) :
        t \in Times,
        pt \in ProductTypes,
        cs \in {NoneV, ListV(<<PageCondition>>)} }
    \cup
    { ExtractionPackage("product",
          ProvenanceModel(UrlA, t, get_trust_score(UrlA)),
          KnowledgeGraphData(ProductModel(NoneV, NoneV), NoneV, NoneV, NoneV, NoneV)) :
        t \in Times }

BranchPackages ==
    { ExtractionPackage("branch",
          ProvenanceModel(u, t, get_trust_score(u)), BranchData(b)) :
        u \in FILIAL_URLS, t \in {MaxTime}, b \in Branches }

(***************************************************************************)
(* Sequential execution: each operation runs to its end before the next    *)
(***************************************************************************)
Procs == {1, 2}

IdleTx == [plan |-> <<>>, w |-> EmptyWrites, open |-> FALSE]

\* the histories of a store at rest
Done == [op |-> "done"]

NoSnap == [p \in Procs |-> EmptyDb]

AllIdle == \A p \in Procs : tx[p] = IdleTx

\* the one row a sequential run reads
OldFactOf(db, s) == CHOOSE old \in StmtReads(db, s) : TRUE

RECURSIVE RunStmts(_, _)
RunStmts(db, stmts) ==
    IF stmts = <<>> THEN db
    ELSE LET s == Head(stmts)
         IN  CHOOSE final \in
                {RunStmts(after, Tail(stmts)) :
                    after \in {Apply(db, StmtWrites(db, s, OldFactOf(db, s)))}} : TRUE

\* history, for each (entity, source), is the corroborate call a whole
\* operation made last for it
RECURSIVE Recorded(_, _)
Recorded(h, stmts) ==
    IF stmts = <<>> THEN h
    ELSE LET s == Head(stmts)
         IN  Recorded(IF s.op = "corroborate"
                      THEN Override(h, <<Node(s.label, s.key), s.meta.url>> :> s)
                      ELSE h,
                      Tail(stmts))

\* no run_ingestion call made yet
NotRunning ==
    [pc |-> "idle", stage |-> "none", urls |-> <<>>, package |-> NoneV, now |-> 1,
     before |-> EmptyFn, fetched |-> {}, inferred |-> FALSE, verified |-> {},
     outcome |-> NoneV]

\* no projection under way
NotProjecting == [model |-> NoneV, node_props |-> NoneV, rel_props |-> NoneV]

\* no ground_package call in progress
NotGrounding ==
    [input |-> NoneV, data |-> NoneV, todo |-> <<>>, calls |-> <<>>, response |-> NoneV]

Init ==
    /\ store = EmptyDb
    /\ tx = [p \in Procs |-> IdleTx]
    /\ last = Done
    /\ snap = NoSnap
    /\ grounding = NotGrounding
    /\ history = EmptyFn
    /\ run = NotRunning
    /\ projection = NotProjecting

\* the statements of each package, computed once
ProductPlan == [package \in ProductPackages |-> ingest_product_package(package)]

BranchPlan == [package \in BranchPackages |-> ingest_branch_package(package)]

\* the operations below run whole: every statement of the operation, then
\* its commit

IngestProductPackage(package) ==
    /\ AllIdle
    /\ store' = RunStmts(store, ProductPlan[package])
    /\ history' = Recorded(history, ProductPlan[package])
    /\ UNCHANGED <<tx, last, snap, grounding, run, projection>>

IngestBranchPackage(package) ==
    /\ AllIdle
    /\ store' = RunStmts(store, BranchPlan[package])
    /\ history' = Recorded(history, BranchPlan[package])
    /\ UNCHANGED <<tx, last, snap, grounding, run, projection>>

IngestFakeData ==
    /\ AllIdle
    /\ store' = RunStmts(store, ingest_fake_data)
    /\ history' = Recorded(history, ingest_fake_data)
    /\ UNCHANGED <<tx, last, snap, grounding, run, projection>>

CreateInferredRelationships ==
    /\ AllIdle
    /\ store' = RunStmts(store, create_inferred_relationships)
    /\ history' = Recorded(history, create_inferred_relationships)
    /\ UNCHANGED <<tx, last, snap, grounding, run, projection>>

Next ==
    \/ \E package \in ProductPackages : IngestProductPackage(package)
    \/ \E package \in BranchPackages : IngestBranchPackage(package)
    \/ IngestFakeData
    \/ CreateInferredRelationships

Spec == Init /\ [][Next]_vars


(***************************************************************************)
(* Statement by statement: an operation in progress is the statements it   *)
(* has still to issue, the writes of its open transaction, and whether a   *)
(* transaction is open.  A statement inside a transaction reads the        *)
(* committed store and the transaction's own writes, and its writes reach  *)
(* the store at the commit; a statement outside one (session.run) commits  *)
(* at once.  snap is the store as the operation in progress found it, last *)
(* the step taken last.                                                    *)
(***************************************************************************)
RECURSIVE ApplyAll(_, _)
ApplyAll(db, ps) ==
    IF ps = {} THEN db
    ELSE LET q == CHOOSE x \in ps : TRUE
         IN  ApplyAll(Apply(db, tx[q].w), ps \ {q})

ViewUncommitted(p) ==
    IF tx[p].open THEN Apply(ApplyAll(store, Procs \ {p}), tx[p].w) ELSE store

View(p) == IF tx[p].open THEN Apply(store, tx[p].w) ELSE store

Start(p, stmts) ==
    /\ tx[p] = IdleTx
    /\ stmts # <<>>
    /\ tx' = [tx EXCEPT ![p] = [plan |-> stmts, w |-> EmptyWrites, open |-> FALSE]]
    /\ snap' = [snap EXCEPT ![p] = store]
    /\ last' = [op |-> "start", p |-> p]
    /\ UNCHANGED <<store, grounding, history, run, projection>>

\* the history after a step of p that leaves rest to issue: with nothing
\* left the operation is over
After(p, rest, step) ==
    /\ IF rest = <<>>
       THEN /\ last' = Done
            /\ snap' = [snap EXCEPT ![p] = EmptyDb]
       ELSE /\ last' = step
            /\ UNCHANGED snap
    /\ UNCHANGED <<grounding, history, run, projection>>

\* session.execute_write opens the transaction
StepBegin(p) ==
    /\ tx[p].plan # <<>>
    /\ Head(tx[p].plan).op = "begin"
    /\ tx' = [tx EXCEPT ![p].plan = Tail(@), ![p].open = TRUE]
    /\ last' = [op |-> "begin", p |-> p]
    /\ UNCHANGED <<store, snap, grounding, history, run, projection>>

\* the next statement, of kind op, reading row old
Issue(p, op, old) ==
    LET s == Head(tx[p].plan)
        d == StmtWrites(View(p), s, old)
    IN  /\ s.op = op
        /\ old \in StmtReads(View(p), s)
        /\ IF tx[p].open
           THEN /\ tx' = [tx EXCEPT ![p].plan = Tail(@), ![p].w = ThenWrites(@, d)]
                /\ UNCHANGED store
           ELSE /\ tx' = [tx EXCEPT ![p].plan = Tail(@)]
                /\ store' = Apply(store, d)

StepSweep(p) ==
    /\ tx[p].plan # <<>>
    /\ Issue(p, "sweep", NoneV)
    /\ After(p, Tail(tx[p].plan),
             [op |-> "sweep", p |-> p, stmt |-> Head(tx[p].plan)])

StepCorroborate(p) ==
    /\ tx[p].plan # <<>>
    /\ \E old \in StmtReads(View(p), Head(tx[p].plan)) :
          /\ Issue(p, "corroborate", old)
          /\ After(p, Tail(tx[p].plan),
                   [op |-> "corroborate", p |-> p, stmt |-> Head(tx[p].plan),
                    old_fact |-> old,
                    held |-> LET s == Head(tx[p].plan)
                             IN  <<Node(s.label, s.key), s.meta.url>>
                                     \in ActiveEdgesOf(View(p), Node(s.label, s.key)),
                    is_candidate_winner |->
                        IsCandidateWinner(Head(tx[p].plan).meta, old)])

StepMergeRel(p) ==
    /\ tx[p].plan # <<>>
    /\ Issue(p, "merge_rel", NoneV)
    /\ After(p, Tail(tx[p].plan),
             [op |-> "merge_rel", p |-> p, stmt |-> Head(tx[p].plan)])

\* the transaction function returned: commit
StepCommit(p) ==
    /\ tx[p].plan # <<>>
    /\ Head(tx[p].plan).op = "commit"
    /\ store' = Apply(store, tx[p].w)
    /\ tx' = [tx EXCEPT ![p].plan = Tail(@), ![p].w = EmptyWrites, ![p].open = FALSE]
    /\ After(p, Tail(tx[p].plan), [op |-> "commit", p |-> p])

\* a failure of the store at any point of the operation: the open
\* transaction is rolled back, what was committed before stays
Abort(p) ==
    /\ tx[p].plan # <<>>
    /\ tx' = [tx EXCEPT ![p] = IdleTx]
    /\ last' = Done
    /\ snap' = [snap EXCEPT ![p] = EmptyDb]
    /\ UNCHANGED <<store, grounding, history, run, projection>>

(***************************************************************************)
(* One operation at a time, statement by statement, with failures.         *)
(* Packages carry any provenance (ingest_product_package takes the package *)
(* its caller built).                                                      *)
(***************************************************************************)
TrustScores == {SOURCE_TRUST_SCORES.www, SOURCE_TRUST_SCORES.intern}

\* a page that lists the same condition twice, with different rates
TwiceListed ==
    ListV(<< UngroundedCondition, PageCondition,
             ConditionModel(ProvableFact("Savings Bond", "type snippet"),
                            Scalar(5000), NoneV, Scalar(6),
                            ProvableFact("2.40%", "other rate snippet")) >>)

\* the provenance of a package: UrlA with its configured score, UrlB with
\* any score
TxProvenances ==
    { ProvenanceModel(UrlA, t, get_trust_score(UrlA)) : t \in Times }
    \cup { ProvenanceModel(UrlB, t, ts) : t \in Times, ts \in TrustScores }

TxPackages ==
    { ExtractionPackage("product", m,
          KnowledgeGraphData(p, EnumV("InterestProduct"), NoneV, NoneV, NoneV)) :
        m \in TxProvenances, p \in Products }
    \cup
    { ExtractionPackage("product",
          ProvenanceModel(UrlA, 1, get_trust_score(UrlA)),
          KnowledgeGraphData(ProductModel(NameFact, NoneV), EnumV("InterestProduct"),
                             EnumV("1"), TwiceListed, NoneV)) }

TxPlan == [package \in TxPackages |-> ingest_product_package(package)]

StartProduct(p, package) == Start(p, TxPlan[package])

StartFake(p) == Start(p, ingest_fake_data)

NextTx ==
    \/ \E package \in TxPackages : StartProduct(1, package)
    \/ StartFake(1)
    \/ StepBegin(1)
    \/ StepSweep(1)
    \/ StepCorroborate(1)
    \/ StepMergeRel(1)
    \/ StepCommit(1)
    \/ Abort(1)

SpecTx == Init /\ [][NextTx]_vars


(***************************************************************************)
(* Two ingestions at once, statement by statement, without failures: two   *)
(* callers of ingest_product_package, each with a session of its own and a *)
(* page of its own.                                                        *)
(***************************************************************************)
ConcPackages ==
    { ExtractionPackage("product",
          ProvenanceModel(u, t, get_trust_score(u)),
          KnowledgeGraphData(ProductModel(NameFact, NoneV), EnumV("InterestProduct"),
                             NoneV, NoneV, NoneV)) :
        u \in TARGET_URLS, t \in Times }

ConcPlan == [package \in ConcPackages |-> ingest_product_package(package)]

\* the page each caller ingests
PageOf == <<UrlA, UrlB>>

StartConc(p, package) ==
    /\ package.metadata.url = PageOf[p]
    /\ tx[p] = IdleTx
    /\ tx' = [tx EXCEPT ![p] = [plan |-> ConcPlan[package], w |-> EmptyWrites,
                                open |-> FALSE]]
    /\ last' = [op |-> "start", p |-> p]
    /\ UNCHANGED <<store, snap, grounding, history, run, projection>>

\* a package of a third source, an internal page, ingested while no other
\* ingestion is in progress
LaterPackages ==
    { ExtractionPackage("product",
          ProvenanceModel(FakeUrl, t, get_trust_score(FakeUrl)),
          KnowledgeGraphData(ProductModel(NameFact, NoneV), EnumV("InterestProduct"),
                             NoneV, NoneV, NoneV)) :
        t \in {MaxTime} }

LaterPlan == [package \in LaterPackages |-> ingest_product_package(package)]

StartLater(p, package) ==
    /\ p = 1
    /\ AllIdle
    /\ tx' = [tx EXCEPT ![p] = [plan |-> LaterPlan[package], w |-> EmptyWrites,
                                open |-> FALSE]]
    /\ last' = [op |-> "start", p |-> p]
    /\ UNCHANGED <<store, snap, grounding, history, run, projection>>

NextConc ==
    \E p \in Procs :
        \/ \E package \in ConcPackages : StartConc(p, package)
        \/ \E package \in LaterPackages : StartLater(p, package)
        \/ StepBegin(p)
        \/ StepSweep(p)
        \/ StepCorroborate(p)
        \/ StepMergeRel(p)
        \/ StepCommit(p)

SpecConc == Init /\ [][NextConc]_vars

(***************************************************************************)
(* 4.3 grounder (is_fact_grounded, _ground_model_recursive, ground_package)*)
(* A path names a field of the tree: field names, and the position of an   *)
(* item in a list as a string.                                             *)
(***************************************************************************)
\* the answers of the verification call: an exception, a response without
\* a parsed body, a parsed GrounderResponse
Responses ==
    { [raised |-> TRUE],
      [raised |-> FALSE, parsed |-> NoneV],
      [raised |-> FALSE, parsed |-> [is_grounded |-> TRUE]],
      [raised |-> FALSE, parsed |-> [is_grounded |-> FALSE]] }

is_fact_grounded_fail_open(response) ==
    IF response.raised THEN TRUE
    ELSE IF IsNone(response.parsed) THEN TRUE
    ELSE response.parsed.is_grounded

\* is_fact_grounded (85-101)
is_fact_grounded(response) ==
    IF response.raised THEN FALSE
    ELSE IF IsNone(response.parsed) THEN FALSE
    ELSE response.parsed.is_grounded

\* model_fields of the ontology's classes, in the order of declaration
FieldOrder ==
    << "product", "product_type", "risk_class", "conditions", "faqs", "branch",
       "name", "description", "address", "employees", "email", "phone",
       "role_type", "type", "min_amount", "max_amount", "term_years",
       "interest_rate", "question", "answer" >>

ModelFields(model) == SelectSeq(FieldOrder, LAMBDA f : f \in DOMAIN model)

\* isinstance(x, BaseModel): a model of the ontology, a ProvableFact included
IsBaseModel(x) == "tag" \notin DOMAIN x \/ IsTagged(x, "Fact")

Prefixed(prefix, paths) == [i \in DOMAIN paths |-> prefix \o paths[i]]

RECURSIVE GroundPathsFirstItem(_)
GroundPathsFirstItem(model) ==
    IF IsNone(model) \/ IsTagged(model, "Fact") THEN <<>>
    ELSE LET fields == ModelFields(model)
             Of(f) ==
                LET field_value == model[f]
                IN  IF IsNone(field_value) THEN <<>>
                    ELSE IF IsTagged(field_value, "Fact") THEN << <<f>> >>
                    ELSE IF IsBaseModel(field_value)
                         THEN Prefixed(<<f>>, GroundPathsFirstItem(field_value))
                    ELSE IF IsTagged(field_value, "List") /\ field_value.items # <<>>
                         THEN Prefixed(<<f, ToString(1)>>,
                                       GroundPathsFirstItem(field_value.items[1]))
                    ELSE <<>>
         IN  Flatten([i \in DOMAIN fields |-> Of(fields[i])])

\* the ProvableFact fields _ground_model_recursive reaches in model, in the
\* order it reaches them (103-130)
RECURSIVE GroundPaths(_)
GroundPaths(model) ==
    IF IsNone(model) \/ IsTagged(model, "Fact") THEN <<>>
    ELSE LET fields == ModelFields(model)
             Of(f) ==
                LET field_value == model[f]
                IN  IF IsNone(field_value) THEN <<>>
                    ELSE IF IsTagged(field_value, "Fact") THEN << <<f>> >>
                    ELSE IF IsBaseModel(field_value)
                         THEN Prefixed(<<f>>, GroundPaths(field_value))
                    ELSE IF IsTagged(field_value, "List")
                         THEN Flatten([i \in DOMAIN field_value.items |->
                                 IF IsBaseModel(field_value.items[i])
                                 THEN Prefixed(<<f, ToString(i)>>,
                                               GroundPaths(field_value.items[i]))
                                 ELSE <<>>])
                    ELSE <<>>
         IN  Flatten([i \in DOMAIN fields |-> Of(fields[i])])

\* getattr along a path
RECURSIVE GetAt(_, _)
GetAt(x, path) ==
    IF path = <<>> THEN x
    ELSE IF IsTagged(x, "List")
         THEN GetAt(x.items[CHOOSE i \in DOMAIN x.items : ToString(i) = Head(path)],
                    Tail(path))
    ELSE GetAt(x[Head(path)], Tail(path))

\* setattr(model_instance, field_name, None) at the end of a path
RECURSIVE SetNone(_, _)
SetNone(x, path) ==
    IF path = <<>> THEN NoneV
    ELSE IF IsTagged(x, "List")
         THEN LET i == CHOOSE j \in DOMAIN x.items : ToString(j) = Head(path)
              IN  [x EXCEPT !.items[i] = SetNone(@, Tail(path))]
    ELSE [x EXCEPT ![Head(path)] = SetNone(@, Tail(path))]

IsEmptyValueOnly(fact) == fact.value = ""

\* not field_value.value or not field_value.evidence (112)
IsEmptyFact(fact) == fact.value = "" \/ fact.evidence = ""

(***************************************************************************)
(* ground_package on one tree, leaf by leaf.  grounding.input is the tree  *)
(* as given, data the tree as it is, todo the leaves still to reach, calls *)
(* the verification calls made with their verdicts, response the answer of *)
(* the last call.                                                          *)
(***************************************************************************)
EmptyEvidence == ProvableFact("2.5%", "")

EmptyValue == ProvableFact("", "name snippet")

GroundConditions ==
    { PageCondition,
      ConditionModel(ProvableFact("Savings Bond", "type snippet"),
                     Scalar(5000), NoneV, Scalar(6), EmptyEvidence) }

SeqsUpTo(S, n) == UNION {[1..k -> S] : k \in 0..n}

\* the data of the packages extract_structured_data hands to ground_package
GroundInputs ==
    { KnowledgeGraphData(product, EnumV("InterestProduct"), EnumV("1"), conditions, NoneV) :
        product \in { ProductModel(NameFact, NoneV),
                      ProductModel(EmptyValue,
                                   ProvableFact("a savings bond", "description snippet")) },
        conditions \in {NoneV} \cup {ListV(cs) : cs \in SeqsUpTo(GroundConditions, MaxItems)} }
    \cup
    { BranchData(BranchModel(ProvableFact("Soltau", "branch snippet"), es)) :
        es \in SeqsUpTo(Employees, 1) }

InitGround ==
    /\ store = EmptyDb
    /\ tx = [p \in Procs |-> IdleTx]
    /\ last = Done
    /\ snap = NoSnap
    /\ history = EmptyFn
    /\ run = NotRunning
    /\ projection = NotProjecting
    /\ \E data \in GroundInputs :
          grounding = [input |-> data, data |-> data, todo |-> GroundPaths(data),
                       calls |-> <<>>, response |-> NoneV]

\* an empty value or evidence: the field is removed (112-115)
GroundSkip ==
    /\ grounding.todo # <<>>
    /\ IsEmptyFact(GetAt(grounding.data, Head(grounding.todo)))
    /\ grounding' = [grounding EXCEPT
                        !.data = SetNone(@, Head(grounding.todo)),
                        !.todo = Tail(@),
                        !.response = NoneV]
    /\ UNCHANGED <<store, tx, last, snap, history, run, projection>>

\* the verification call and its outcome (117-123)
GroundVerify ==
    /\ grounding.todo # <<>>
    /\ ~IsEmptyFact(GetAt(grounding.data, Head(grounding.todo)))
    /\ \E response \in Responses :
          LET is_grounded == is_fact_grounded(response)
          IN  grounding' = [grounding EXCEPT
                  !.data = IF is_grounded THEN @ ELSE SetNone(@, Head(grounding.todo)),
                  !.todo = Tail(@),
                  !.calls = Append(@, [path |-> Head(grounding.todo),
                                       is_grounded |-> is_grounded]),
                  !.response = response]
    /\ UNCHANGED <<store, tx, last, snap, history, run, projection>>

NextGround == GroundSkip \/ GroundVerify

SpecGround == InitGround /\ [][NextGround]_vars

(***************************************************************************)
(* run_ingestion (main.py 14-71), step by step: clear_database, the        *)
(* product pages, the fake entry, the branch pages, the inference.  run.pc *)
(* is the phase, run.urls the pages of the phase still to handle,          *)
(* run.stage the step the page at the head is at.  retrieved_at is the     *)
(* clock's reading when the provenance is built.  run.before is the store  *)
(* the run found; fetched, inferred, verified and outcome record what the  *)
(* run did: the pages it asked for, whether the inference ran, the facts   *)
(* the verification call accepted, and how the last ingestion call ended.  *)
(***************************************************************************)
RunTargets == << UrlA, UrlB >>

RunFilials == << FilialUrl >>

\* what extract_structured_data parses out of a page
ProductTree ==
    KnowledgeGraphData(ProductModel(NameFact, NoneV), EnumV("InterestProduct"),
                       EnumV("1"), ListV(<<PageCondition>>), NoneV)

BranchTree ==
    BranchData(BranchModel(ProvableFact("Soltau", "branch snippet"),
        << EmployeeModel(ProvableFact("Erika", "employee snippet"), EnumV("Advisor")) >>))

\* _ground_model_recursive with the verification call refusing the leaves
\* in refuted (108-123)
RECURSIVE GroundWith(_, _, _)
GroundWith(data, paths, refuted) ==
    IF paths = <<>> THEN data
    ELSE LET path == Head(paths)
         IN  GroundWith(IF IsEmptyFact(GetAt(data, path)) \/ path \in refuted
                        THEN SetNone(data, path) ELSE data,
                        Tail(paths), refuted)

\* ground_package (132-137)
ground_package(package, refuted) ==
    [package EXCEPT !.data = GroundWith(@, GroundPaths(@), refuted)]

\* the facts of the tree the verification call accepted
Accepted(data, refuted) ==
    {GetAt(data, GroundPaths(data)[i]) :
        i \in {j \in DOMAIN GroundPaths(data) :
                  /\ ~IsEmptyFact(GetAt(data, GroundPaths(data)[j]))
                  /\ GroundPaths(data)[j] \notin refuted}}

\* a store an earlier run left: none, or one with a product page's facts
EarlierStores ==
    { EmptyDb,
      RunStmts(EmptyDb, ingest_product_package(
          ExtractionPackage("product", ProvenanceModel(UrlA, 1, get_trust_score(UrlA)),
                            ProductTree))) }

InitRun ==
    /\ store \in EarlierStores
    /\ tx = [p \in Procs |-> IdleTx]
    /\ last = Done
    /\ snap = NoSnap
    /\ grounding = NotGrounding
    /\ history = EmptyFn
    /\ run = NotRunning
    /\ projection = NotProjecting

RunFrame == UNCHANGED <<tx, last, snap, grounding, history, projection>>

\* the loop moves to the next page, and past the last one to the next phase
NextPage(r) ==
    IF Len(r.urls) > 1
    THEN [r EXCEPT !.urls = Tail(@), !.stage = "fetch", !.package = NoneV]
    ELSE IF r.pc = "product"
         THEN [r EXCEPT !.pc = "fake", !.urls = <<>>, !.stage = "none", !.package = NoneV]
         ELSE [r EXCEPT !.pc = "inference", !.urls = <<>>, !.stage = "none",
                        !.package = NoneV]

\* run_ingestion is called: clear_database (18), then the product loop
RunStart ==
    /\ run.pc = "idle"
    /\ store' = EmptyDb
    /\ run' = [run EXCEPT !.pc = "product", !.urls = RunTargets, !.stage = "fetch",
                          !.before = store.edges]
    /\ RunFrame

\* get_webpage_content (26, 50): the text, or None after a request error
RunFetch ==
    /\ run.pc \in {"product", "branch"}
    /\ run.stage = "fetch"
    /\ \E text \in {"text", "None"} :
          LET r == [run EXCEPT !.fetched = @ \cup {Head(run.urls)}]
          IN  run' = IF text = "None" THEN NextPage(r) ELSE [r EXCEPT !.stage = "extract"]
    /\ UNCHANGED store
    /\ RunFrame

\* extract_structured_data (29, 53): the parsed tree, or None; with a tree
\* the provenance and the package are built (33-36, 57-60)
RunExtract ==
    /\ run.pc \in {"product", "branch"}
    /\ run.stage = "extract"
    /\ \/ run' = NextPage(run)
       \/ \E t \in run.now..MaxTime :
             LET url == Head(run.urls)
                 meta == ProvenanceModel(url, t, get_trust_score(url))
                 package == IF run.pc = "product"
                            THEN ExtractionPackage("product", meta, ProductTree)
                            ELSE ExtractionPackage("branch", meta, BranchTree)
             IN  run' = [run EXCEPT !.stage = "ground", !.package = package, !.now = t]
    /\ UNCHANGED store
    /\ RunFrame

\* ground_package (39, 63), the verification call refusing any of the facts
RunGround ==
    /\ run.pc \in {"product", "branch"}
    /\ run.stage = "ground"
    /\ \E refuted \in SUBSET {GroundPaths(run.package.data)[i] :
                                 i \in DOMAIN GroundPaths(run.package.data)} :
          run' = [run EXCEPT
                     !.stage = "ingest",
                     !.package = ground_package(@, refuted),
                     !.verified = @ \cup Accepted(run.package.data, refuted)]
    /\ UNCHANGED store
    /\ RunFrame

\* the statements of the ingestion call for the package (42, 66)
RunPlan(package) ==
    IF package.kind = "product" THEN ingest_product_package(package)
    ELSE ingest_branch_package(package)

\* ingest_product_package / ingest_branch_package return
RunIngest ==
    /\ run.pc \in {"product", "branch"}
    /\ run.stage = "ingest"
    /\ store' = RunStmts(store, RunPlan(run.package))
    /\ run' = [NextPage(run) EXCEPT
                  !.outcome = [op |-> "ingest", store_failed |-> FALSE, raised |-> FALSE]]
    /\ RunFrame

\* the store fails inside the transaction: it is rolled back and the
\* exception leaves ingest_*_package (293-305) and run_ingestion, which
\* have no handler
RunIngestFails ==
    /\ run.pc \in {"product", "branch"}
    /\ run.stage = "ingest"
    /\ run' = [run EXCEPT
                  !.pc = "raised", !.stage = "none",
                  !.outcome = [op |-> "ingest", store_failed |-> TRUE, raised |-> TRUE]]
    /\ UNCHANGED store
    /\ RunFrame

\* ingest_fake_data returns after its three statements (45)
RunFake ==
    /\ run.pc = "fake"
    /\ store' = RunStmts(store, ingest_fake_data)
    /\ run' = [run EXCEPT
                  !.pc = "branch", !.urls = RunFilials, !.stage = "fetch",
                  !.outcome = [op |-> "fake", store_failed |-> FALSE, raised |-> FALSE]]
    /\ RunFrame

\* the store fails at one of ingest_fake_data's statements: what was
\* committed before stays, the handler of 413-414 prints and the function
\* returns
RunFakeFails ==
    /\ run.pc = "fake"
    /\ \E done \in {<<>>, SubSeq(ingest_fake_data, 1, 1),
                   SubSeq(ingest_fake_data, 1, Len(ingest_fake_data) - 1)} :
          store' = RunStmts(store, done)
    /\ run' = [run EXCEPT
                  !.pc = "branch", !.urls = RunFilials, !.stage = "fetch",
                  !.outcome = [op |-> "fake", store_failed |-> TRUE, raised |-> FALSE]]
    /\ RunFrame

\* create_inferred_relationships (69)
RunInference ==
    /\ run.pc = "inference"
    /\ store' = RunStmts(store, create_inferred_relationships)
    /\ run' = [run EXCEPT !.pc = "done", !.inferred = TRUE]
    /\ RunFrame

NextRun ==
    \/ RunStart
    \/ RunFetch
    \/ RunExtract
    \/ RunGround
    \/ RunIngest
    \/ RunIngestFails
    \/ RunFake
    \/ RunFakeFails
    \/ RunInference

SpecRun == InitRun /\ [][NextRun]_vars

(***************************************************************************)
(* Assertions about one entity, each source once, in any order: the        *)
(* corroborator called for one source after the other, with no sweep in    *)
(* between that would find an edge to deactivate.                          *)
(***************************************************************************)
OrderSources == {UrlA, UrlB, FakeUrl}

\* what each source says of the product
DescriptionOf ==
    [u \in OrderSources |->
        IF u = UrlA THEN ProvableFact("a savings bond", "page a")
        ELSE IF u = UrlB THEN ProvableFact("a bond for savers", "page b")
        ELSE ProvableFact("an internal bond", "internal note")]

\* the corroborate call of _tx_ingest_product_package (233-236) for the
\* product as source u has it, retrieved at t with trust score trust
OrderStmt(u, t, trust) ==
    LET product == ProductModel(NameFact, DescriptionOf[u])
    IN  CorroborateStmt("Product", "name", FakeProductName,
            DictPut(get_node_props(product), "name", FakeProductName),
            get_rel_props(product), ProvenanceModel(u, t, trust))

AssertOnce(u, t, trust) ==
    LET s == OrderStmt(u, t, trust)
    IN  /\ <<Node(s.label, s.key), u>> \notin DOMAIN store.edges
        /\ store' = RunStmts(store, ExecuteWrite(<< s >>))
        /\ history' = Recorded(history, << s >>)
        /\ UNCHANGED <<tx, last, snap, grounding, run, projection>>

NextOrder == \E u \in OrderSources, t \in Times, trust \in TrustScores : AssertOnce(u, t, trust)

SpecOrder == Init /\ [][NextOrder]_vars

(***************************************************************************)
(* Two pages about one product, a branch page with its employee, and the   *)
(* inference: the operations run whole, in any order.                      *)
(***************************************************************************)
\* the packages of the two product pages: the product by name, with the
\* type each page's extraction gave it
RivalPackages ==
    { ExtractionPackage("product",
          ProvenanceModel(u, t, get_trust_score(u)),
          KnowledgeGraphData(ProductModel(NameFact, NoneV), pt, EnumV("1"), NoneV, NoneV)) :
        u \in TARGET_URLS, t \in Times, pt \in ProductTypes }

IngestRival(package) ==
    /\ AllIdle
    /\ store' = RunStmts(store, ingest_product_package(package))
    /\ history' = Recorded(history, ingest_product_package(package))
    /\ UNCHANGED <<tx, last, snap, grounding, run, projection>>

NextDerive ==
    \/ \E package \in RivalPackages : IngestRival(package)
    \/ \E package \in BranchPackages : IngestBranchPackage(package)
    \/ CreateInferredRelationships

SpecDerive == Init /\ [][NextDerive]_vars

(***************************************************************************)
(* get_node_props and get_rel_props applied to a sub-object of a grounded  *)
(* tree.  projection.model is the argument, node_props and rel_props the   *)
(* dictionaries returned, None before the call.                            *)
(***************************************************************************)
\* a ProvableFact field after grounding: the fact, or None
Survivals(fact) == {fact, NoneV}

\* sub-objects as ground_package leaves them
ProjectInputs ==
    { ProductModel(name, description) :
        name \in Survivals(NameFact),
        description \in Survivals(ProvableFact("a savings bond", "description snippet")) }
    \cup
    { ConditionModel(type, min_amount, max_amount, term_years, interest_rate) :
        type \in Survivals(ProvableFact("Savings Bond", "type snippet")),
        min_amount \in {NoneV, Scalar(5000)},
        max_amount \in {NoneV, Scalar(49999)},
        term_years \in {NoneV, Scalar(6)},
        interest_rate \in Survivals(ProvableFact("2.25%", "rate snippet")) }
    \cup
    { [EmployeeModel(name, EnumV(role)) EXCEPT !.email = email] :
        name \in Survivals(ProvableFact("Erika", "employee snippet")),
        role \in {"Advisor", "Service"},
        email \in Survivals(ProvableFact("erika@vblh.de", "email snippet")) }
    \cup
    { FAQModel(question, answer) :
        question \in Survivals(ProvableFact("How long?", "question snippet")),
        answer \in Survivals(ProvableFact("Six years.", "answer snippet")) }

InitProject ==
    /\ store = EmptyDb
    /\ tx = [p \in Procs |-> IdleTx]
    /\ last = Done
    /\ snap = NoSnap
    /\ grounding = NotGrounding
    /\ history = EmptyFn
    /\ run = NotRunning
    /\ \E model \in ProjectInputs :
          projection = [NotProjecting EXCEPT !.model = model]

\* node_props = get_node_props(model) (233, 249, 258, 275, 285)
ProjectNodeProps ==
    /\ IsNone(projection.node_props)
    /\ projection' = [projection EXCEPT !.node_props = get_node_props(projection.model)]
    /\ UNCHANGED <<store, tx, last, snap, grounding, history, run>>

\* rel_props = get_rel_props(model) (236, 252, 261, 278, 287)
ProjectRelProps ==
    /\ IsNone(projection.rel_props)
    /\ projection' = [projection EXCEPT !.rel_props = get_rel_props(projection.model)]
    /\ UNCHANGED <<store, tx, last, snap, grounding, history, run>>

NextProject == ProjectNodeProps \/ ProjectRelProps

SpecProject == InitProject /\ [][NextProject]_vars

(***************************************************************************)
(* Properties                                                              *)
(***************************************************************************)
EntityNodes(db) == {n \in DOMAIN db.nodes : EdgesOf(db, n) # {}}

\* C1: from the empty store, after any sequence of package ingestions, fake
\* injections and rederive runs, each run whole, every entity has 0 or 1
\* FROM_SOURCE edges with is_active = true.
C1_AtMostOneActive ==
    /\ \A k \in DOMAIN store.edges : k[1] \in DOMAIN store.nodes
    /\ \A n \in DOMAIN store.nodes : Cardinality(ActiveEdgesOf(store, n)) <= 1

\* an entity two sources have asserted, one of them holding the active edge
C1_Witness ==
    \E n \in EntityNodes(store) :
        /\ Cardinality(ActiveEdgesOf(store, n)) = 1
        /\ \E k \in EdgesOf(store, n) : ~store.edges[k].is_active


(***************************************************************************)
(* The corroborate step.  In the formulas below the unprimed View(p) is    *)
(* what the step read and the primed one what it left.                     *)
(***************************************************************************)
\* the entity and the (entity, source) edge of the corroborate statement s
EntityOf(s) == Node(s.label, s.key)

OwnEdge(s) == <<EntityOf(s), s.meta.url>>

\* the step after which `last` is a corroborate step left View(last.p) with
\* the statement's own edge active and every other edge of the entity not
LastWon ==
    LET db == View(last.p)
        s == last.stmt
    IN  /\ OwnEdge(s) \in DOMAIN db.edges
        /\ ActiveEdgesOf(db, EntityOf(s)) = {OwnEdge(s)}

\* C2: a corroborate step that finds an active edge of another source with
\* an older retrieved_at leaves its own edge active and that edge inactive,
\* whatever the two trust scores.
C2_NewerWins ==
    [][\A p \in Procs : StepCorroborate(p) =>
        LET s == Head(tx[p].plan)
        IN  \A k \in FindOld(View(p), EntityOf(s), s.meta.url) :
                s.meta.retrieved_at > View(p).edges[k].retrieved_at =>
                    /\ View(p)'.edges[OwnEdge(s)].is_active
                    /\ ~View(p)'.edges[k].is_active]_vars

\* a newer assertion with the lower trust score has won
C2_Witness ==
    /\ last.op = "corroborate"
    /\ ~IsNone(last.old_fact)
    /\ last.stmt.meta.retrieved_at > last.old_fact.old_ts
    /\ last.stmt.meta.trust_score < last.old_fact.old_trust
    /\ LastWon

\* C3: against an active edge of another source with the same retrieved_at
\* the step leaves its own edge active iff its trust score is >= the other's;
\* with a lower trust score, or with an older retrieved_at whatever the
\* trust scores, the other edge stays the active one.
C3_TieBreak ==
    [][\A p \in Procs : StepCorroborate(p) =>
        LET s == Head(tx[p].plan)
            own == View(p)'.edges[OwnEdge(s)]
        IN  \A k \in FindOld(View(p), EntityOf(s), s.meta.url) :
                LET old == View(p).edges[k]
                IN  /\ s.meta.retrieved_at = old.retrieved_at =>
                           (own.is_active <=> s.meta.trust_score >= old.trust_score)
                    /\ (\/ s.meta.retrieved_at < old.retrieved_at
                        \/ /\ s.meta.retrieved_at = old.retrieved_at
                           /\ s.meta.trust_score < old.trust_score) =>
                           /\ ~own.is_active
                           /\ View(p)'.edges[k] = old]_vars

\* the same retrieved_at and a lower trust score: the competitor stayed
C3_Witness ==
    /\ last.op = "corroborate"
    /\ ~IsNone(last.old_fact)
    /\ last.stmt.meta.retrieved_at = last.old_fact.old_ts
    /\ last.stmt.meta.trust_score < last.old_fact.old_trust
    /\ ~View(last.p).edges[OwnEdge(last.stmt)].is_active
    /\ \E k \in ActiveEdgesOf(View(last.p), EntityOf(last.stmt)) :
            k[2] # last.stmt.meta.url

\* C4: a corroborate step that finds no active edge of another source (the
\* entity is new, or the active edge is the source's own) leaves its own
\* edge active, for every retrieved_at and trust score.
C4_NoCompetitorWins ==
    [][\A p \in Procs : StepCorroborate(p) =>
        LET s == Head(tx[p].plan)
        IN  FindOld(View(p), EntityOf(s), s.meta.url) = {} =>
                /\ OwnEdge(s) \in DOMAIN View(p)'.edges
                /\ View(p)'.edges[OwnEdge(s)].is_active]_vars

\* a re-assertion by the source that held the active edge has won
C4_Witness ==
    /\ last.op = "corroborate"
    /\ last.held
    /\ IsNone(last.old_fact)
    /\ LastWon


\* edge e holds exactly the assertion properties of statement s: its
\* evidence entries, the provenance's retrieved_at and trust_score, and
\* is_active = active
HoldsAssertion(e, s, active) ==
    /\ DOMAIN e = DOMAIN s.rel_props \cup {"retrieved_at", "trust_score", "is_active"}
    /\ \A f \in DOMAIN s.rel_props : e[f] = s.rel_props[f]
    /\ e.retrieved_at = s.meta.retrieved_at
    /\ e.trust_score = s.meta.trust_score
    /\ e.is_active = active

\* C5: when the corroborate step decides Won, it leaves the entity's
\* snapshot equal to the new node properties (those with a value: a None
\* entry is no property), no property of the previous snapshot surviving;
\* every other edge of the entity that was active inactive; and the
\* (entity, source) edge active with exactly the new assertion properties.
C5_WonEffects ==
    [][\A p \in Procs : (StepCorroborate(p) /\ last'.is_candidate_winner) =>
        LET s == Head(tx[p].plan)
            n == EntityOf(s)
        IN  /\ View(p)'.nodes[n] = s.node_props.vals
            /\ \A k \in ActiveEdgesOf(View(p), n) \ {OwnEdge(s)} :
                   View(p)'.edges[k] = [View(p).edges[k] EXCEPT !.is_active = FALSE]
            /\ ActiveEdgesOf(View(p)', n) = {OwnEdge(s)}
            /\ HoldsAssertion(View(p)'.edges[OwnEdge(s)], s, TRUE)]_vars

\* a Won step that dropped a property of the snapshot and an evidence entry
\* of its own edge, and took the active flag from another source's edge
C5_Witness ==
    /\ last.op = "corroborate"
    /\ last.is_candidate_winner
    /\ LET s == last.stmt
           n == EntityOf(s)
           before == snap[last.p]
           after == View(last.p)
       IN  /\ n \in DOMAIN before.nodes
           /\ DOMAIN before.nodes[n] \ DOMAIN after.nodes[n] # {}
           /\ OwnEdge(s) \in DOMAIN before.edges
           /\ DOMAIN before.edges[OwnEdge(s)] \ DOMAIN after.edges[OwnEdge(s)] # {}
           /\ \E k \in ActiveEdgesOf(before, n) :
                  k[2] # s.meta.url /\ ~after.edges[k].is_active
           /\ after.edges[OwnEdge(s)].is_active

\* C6: when the corroborate step decides Lost, the entity's snapshot and
\* every edge but the (entity, source) edge, the competing active edge among
\* them, are as before; the (entity, source) edge exists afterwards,
\* inactive, with exactly the new assertion properties.
C6_LostFrame ==
    [][\A p \in Procs : (StepCorroborate(p) /\ ~last'.is_candidate_winner) =>
        LET s == Head(tx[p].plan)
            n == EntityOf(s)
        IN  /\ n \in DOMAIN View(p).nodes
            /\ View(p)'.nodes[n] = View(p).nodes[n]
            /\ DOMAIN View(p)'.edges = DOMAIN View(p).edges \cup {OwnEdge(s)}
            /\ \A k \in DOMAIN View(p).edges \ {OwnEdge(s)} :
                   View(p)'.edges[k] = View(p).edges[k]
            /\ FindOld(View(p)', n, s.meta.url) = FindOld(View(p), n, s.meta.url)
            /\ FindOld(View(p), n, s.meta.url) # {}
            /\ HoldsAssertion(View(p)'.edges[OwnEdge(s)], s, FALSE)]_vars

\* a Lost step whose properties differ from the snapshot it left alone
C6_Witness ==
    /\ last.op = "corroborate"
    /\ ~last.is_candidate_winner
    /\ LET s == last.stmt
           after == View(last.p)
       IN  /\ after.nodes[EntityOf(s)] # s.node_props.vals
           /\ ~after.edges[OwnEdge(s)].is_active
           /\ FindOld(after, EntityOf(s), s.meta.url) # {}


(***************************************************************************)
(* Whole packages (Spec).  In a state at rest, the store a package would   *)
(* leave is RunStmts(store, PlanOf(package)), the store the ingest action  *)
(* moves to.                                                               *)
(***************************************************************************)
Packages == ProductPackages \cup BranchPackages

PlanOf(package) ==
    IF package \in ProductPackages THEN ProductPlan[package] ELSE BranchPlan[package]

\* the entities a package asserts, and its sweep
Asserted(stmts) ==
    {EntityOf(stmts[i]) : i \in {j \in DOMAIN stmts : stmts[j].op = "corroborate"}}

SweepOf(stmts) ==
    stmts[CHOOSE i \in DOMAIN stmts : stmts[i].op = "sweep"]

\* C7: of the entities a source's edge is active on, the source's next
\* package leaves that edge active on those it asserts and inactive on those
\* it does not; its sweep writes only edges of that source, and the package
\* changes no other source's edge on an entity it does not assert.
C7_Staleness ==
    \A package \in Packages :
        LET stmts == PlanOf(package)
            sweep == SweepOf(stmts)
            post == RunStmts(store, stmts)
            swept == SweepWrites(store, sweep.url, sweep.labels)
        IN  /\ \A k \in DOMAIN store.edges :
                   (/\ store.edges[k].is_active
                    /\ k[2] = sweep.url
                    /\ k[1][1] \in sweep.labels) =>
                       (post.edges[k].is_active <=> k[1] \in Asserted(stmts))
            /\ \A k \in DOMAIN swept.edges : k[2] = sweep.url
            /\ swept.nodes = EmptyFn /\ swept.rels = EmptyFn /\ swept.del = {}
            /\ \A k \in DOMAIN store.edges :
                   (k[2] # sweep.url /\ k[1] \notin Asserted(stmts)) =>
                       post.edges[k] = store.edges[k]


\* the source's edge to the condition went stale while its edge to the
\* product is active: the condition's edge was written as the winner over
\* the fake entry, and only a sweep takes the flag from it
C7_Witness ==
    LET x == <<Node("Product", FakeProductName), UrlA>>
        y == <<Node("Condition", FakeKey), UrlA>>
    IN  /\ x \in DOMAIN store.edges /\ y \in DOMAIN store.edges
        /\ store.edges[x].is_active
        /\ ~store.edges[y].is_active
        /\ store.edges[y].retrieved_at > FakeTime

\* C8: from every reachable store and for every package, ingesting the
\* package and then the same package again leaves the store of the first
\* run: the same snapshots and the same edges, active flags included, so
\* each corroborate decided the second time as the first.
C8_Idempotent ==
    \A package \in Packages :
        LET once == RunStmts(store, PlanOf(package))
            twice == RunStmts(once, PlanOf(package))
        IN  /\ twice.nodes = once.nodes
            /\ twice.edges = once.edges

\* a store a package has been ingested into and would be left by again,
\* with an entity the package won and one it lost
C8_Witness ==
    \E package \in ProductPackages :
        LET stmts == PlanOf(package)
            url == package.metadata.url
        IN  /\ store = RunStmts(store, stmts)
            /\ \E n \in Asserted(stmts) : store.edges[<<n, url>>].is_active
            /\ \E n \in Asserted(stmts) :
                   /\ ~store.edges[<<n, url>>].is_active
                   /\ store.edges[<<n, url>>].retrieved_at = package.metadata.retrieved_at
                   /\ FindOld(store, n, url) # {}


(***************************************************************************)
(* Failures (SpecTx)                                                       *)
(***************************************************************************)
\* the operation of p has a transaction still to commit
CommitPending(p) ==
    \E i \in DOMAIN tx[p].plan : tx[p].plan[i].op = "commit"

\* C9: on every ingestion path, a failure after the sweep or after some of
\* the corroborate steps of a package, before the package's transaction has
\* committed, leaves the store exactly as the package found it.
C9_AllOrNothing ==
    [][\A p \in Procs : (Abort(p) /\ CommitPending(p)) => store' = snap[p]]_vars


(***************************************************************************)
(* Concurrent ingestions (SpecConc)                                        *)
(***************************************************************************)
\* the edges buffered by the open transactions other than p's that are
\* active edges of entity n to a source other than url
UncommittedRivals(p, n, url) ==
    {<<q, k>> \in (Procs \ {p}) \X {<<n, u>> : u \in (TARGET_URLS \cup {FakeUrl}) \ {url}} :
        /\ tx[q].open
        /\ k \in DOMAIN tx[q].w.edges
        /\ tx[q].w.edges[k].is_active}

\* the active edges of another source, on the entity of k, that the
\* transaction of p has not written
UnseenRivals(p, k) ==
    {j \in ActiveEdgesOf(store, k[1]) : j[2] # k[2] /\ j \notin DOMAIN tx[p].w.edges}

\* C10: with two ingestions in flight, a corroborate step does not see the
\* active edge another transaction has written and not committed: it reads
\* no competing edge and decides Won; and a commit writes the transaction's
\* active edge next to an active edge of another source committed since the
\* transaction read, leaving the entity with two active edges.
C10_Hazard ==
    [][\A p \in Procs :
        /\ StepCorroborate(p) =>
             LET s == Head(tx[p].plan)
             IN  (/\ FindOld(store, EntityOf(s), s.meta.url) = {}
                  /\ UncommittedRivals(p, EntityOf(s), s.meta.url) # {}) =>
                     /\ IsNone(last'.old_fact)
                     /\ last'.is_candidate_winner
                     /\ View(p)'.edges[OwnEdge(s)].is_active
        /\ StepCommit(p) =>
             \A k \in DOMAIN tx[p].w.edges :
                 tx[p].w.edges[k].is_active =>
                     \A j \in UnseenRivals(p, k) :
                         {j, k} \subseteq ActiveEdgesOf(store', k[1])]_vars

\* both ingestions are over and the entity has two active edges
C10_Witness ==
    /\ AllIdle
    /\ \E n \in DOMAIN store.nodes : Cardinality(ActiveEdgesOf(store, n)) = 2


\* C11: a corroborate step that finds more than one active edge of other
\* sources on its entity decides nothing and writes nothing.
C11_InvariantViolation ==
    [][\A p \in Procs : StepCorroborate(p) =>
        LET s == Head(tx[p].plan)
        IN  Cardinality(FindOld(View(p), EntityOf(s), s.meta.url)) > 1 =>
                View(p)' = View(p)]_vars


(***************************************************************************)
(* Inference (Spec)                                                        *)
(***************************************************************************)
\* the ADVISES_ON relationships of a store
AdvisesOn(db) == {r \in DOMAIN db.rels : r[1] = "ADVISES_ON"}

\* the employees whose snapshot, written by the assertion that holds the
\* active edge, has the role
EmployeesInRole(db, role) ==
    {m \in DOMAIN db.nodes :
        /\ m[1] = "Employee"
        /\ ActiveEdgesOf(db, m) # {}
        /\ "role_type" \in DOMAIN db.nodes[m]
        /\ db.nodes[m].role_type = role}

\* C12: after a rederive run, no ADVISES_ON relationship starts at an
\* employee whose winning assertion gives the role Service, whatever role
\* earlier assertions gave.
C12_RoleRoundTrip ==
    [][CreateInferredRelationships =>
        \A m \in EmployeesInRole(store', "Service") :
            \A r \in AdvisesOn(store') : r[2] # m]_vars


\* C13: from every reachable store, running rederive twice in a row leaves
\* the store that running it once leaves, and after every run there is at
\* most one ADVISES_ON relationship per (employee, product) pair.
C13_RederiveIdempotent ==
    LET once == RunStmts(store, create_inferred_relationships)
        twice == RunStmts(once, create_inferred_relationships)
    IN  /\ twice = once
        /\ \A db \in {store, once, twice} :
               \A r \in AdvisesOn(db) : db.rels[r] = 1

\* a store a rederive run has left, with a derived relationship in it
C13_Witness ==
    /\ AdvisesOn(store) # {}
    /\ store = RunStmts(store, create_inferred_relationships)


\* C14: from every reachable store, in the store a rederive run leaves
\* every ADVISES_ON relationship goes from an Employee with an active
\* FROM_SOURCE edge to a Product with an active FROM_SOURCE edge; an entity
\* without an active edge is the end of none, those of earlier runs included.
C14_OnlyActiveEndpoints ==
    LET post == RunStmts(store, create_inferred_relationships)
    IN  \A r \in AdvisesOn(post) :
            /\ r[2][1] = "Employee" /\ ActiveEdgesOf(post, r[2]) # {}
            /\ r[3][1] = "Product" /\ ActiveEdgesOf(post, r[3]) # {}

\* a store a rederive run has left: an advisor whose edge is inactive next
\* to an active interest product, and no derived relationship between them
C14_Witness ==
    /\ store = RunStmts(store, create_inferred_relationships)
    /\ \E m \in DOMAIN store.nodes, p \in DOMAIN store.nodes :
          /\ <<"HAS_ROLE_TYPE", m, Node("RoleType", "Advisor")>> \in DOMAIN store.rels
          /\ EdgesOf(store, m) # {} /\ ActiveEdgesOf(store, m) = {}
          /\ <<"HAS_PRODUCT_TYPE", p, Node("ProductType", "InterestProduct")>>
                 \in DOMAIN store.rels
          /\ ActiveEdgesOf(store, p) # {}
          /\ <<"ADVISES_ON", m, p>> \notin DOMAIN store.rels


(***************************************************************************)
(* Grounding (SpecGround)                                                  *)
(***************************************************************************)
\* the paths of all ProvableFact leaves of a tree, at any depth
RECURSIVE AllFacts(_)
AllFacts(x) ==
    IF IsTagged(x, "Fact") THEN {<<>>}
    ELSE IF IsTagged(x, "List")
         THEN UNION {{<<ToString(i)>> \o path : path \in AllFacts(x.items[i])} :
                        i \in DOMAIN x.items}
    ELSE IF "tag" \in DOMAIN x THEN {}
    ELSE UNION {{<<f>> \o path : path \in AllFacts(x[f])} : f \in DOMAIN x}

\* the tree with the leaves at the paths nulled
RECURSIVE NullAll(_, _)
NullAll(x, paths) ==
    IF paths = {} THEN x
    ELSE LET path == CHOOSE q \in paths : TRUE
         IN  NullAll(SetNone(x, path), paths \ {path})

\* the leaves still to reach, and the verification calls made for a leaf
ToReach == {grounding.todo[i] : i \in DOMAIN grounding.todo}

CallsFor(path) == {i \in DOMAIN grounding.calls : grounding.calls[i].path = path}

\* the leaf of the input at the path has no value or no evidence
Unsupported(path) ==
    LET fact == GetAt(grounding.input, path)
    IN  fact.value = "" \/ fact.evidence = ""

\* C15: a ProvableFact whose value or evidence is empty is removed when the
\* grounder reaches it, and no verification call is ever made for it.
C15_EmptyRemoved ==
    \A path \in AllFacts(grounding.input) :
        Unsupported(path) =>
            /\ CallsFor(path) = {}
            /\ path \notin ToReach => IsNone(GetAt(grounding.data, path))

\* the grounder is through a tree with a leaf of empty evidence in a list
C15_Witness ==
    /\ grounding.todo = <<>>
    /\ \E path \in AllFacts(grounding.input) :
          /\ Len(path) > 2
          /\ GetAt(grounding.input, path).evidence = ""
          /\ GetAt(grounding.input, path).value # ""
          /\ IsNone(GetAt(grounding.data, path))
    /\ grounding.calls # <<>>

\* the leaves for which a verification call answered "not grounded"
Refuted == {grounding.calls[i].path : i \in {j \in DOMAIN grounding.calls :
                                                ~grounding.calls[j].is_grounded}}

\* C16: the grounder never calls the verification more than once for a
\* leaf; when it is through, every ProvableFact leaf of the input, at any
\* depth and in every list item, with a value and an evidence has had exactly
\* one call, and the tree is the input with exactly the leaves nulled that
\* are empty or were refuted: scalars, enums, and the lists' lengths and
\* order are as given.
C16_VisitsEveryLeafOnce ==
    /\ \A path \in AllFacts(grounding.input) : Cardinality(CallsFor(path)) <= 1
    /\ \A i \in DOMAIN grounding.calls :
          grounding.calls[i].path \in AllFacts(grounding.input)
    /\ grounding.todo = <<>> =>
          /\ \A path \in AllFacts(grounding.input) :
                Cardinality(CallsFor(path)) = IF Unsupported(path) THEN 0 ELSE 1
          /\ grounding.data =
                NullAll(grounding.input,
                        {path \in AllFacts(grounding.input) :
                            Unsupported(path) \/ path \in Refuted})

\* the grounder is through a list of two conditions: a leaf of the second
\* item was refuted, one of the first was kept
C16_Witness ==
    /\ grounding.todo = <<>>
    /\ \E kept, gone \in AllFacts(grounding.input) :
          /\ Len(kept) > 2 /\ Len(gone) > 2
          /\ kept[2] = ToString(1) /\ gone[2] = ToString(2)
          /\ ~Unsupported(gone) /\ gone \in Refuted
          /\ IsNone(GetAt(grounding.data, gone))
          /\ ~IsNone(GetAt(grounding.data, kept))

\* the verification call did not answer: it raised, or its body did not parse
Failed(response) ==
    /\ ~IsNone(response)
    /\ response.raised \/ IsNone(response.parsed)

\* C17: when the verification call for a leaf raises or answers without a
\* parsed body, the leaf is removed as if refuted, nothing else of the tree
\* changes, and the grounder goes on with the leaves that remain.
C17_FailClosed ==
    [][Failed(grounding'.response) =>
          /\ grounding.todo # <<>>
          /\ grounding'.data = SetNone(grounding.data, Head(grounding.todo))
          /\ IsNone(GetAt(grounding'.data, Head(grounding.todo)))
          /\ grounding'.todo = Tail(grounding.todo)
          /\ grounding'.input = grounding.input]_vars

\* the last call raised, its leaf is gone, and leaves remain to be verified
C17_Witness ==
    /\ Failed(grounding.response)
    /\ grounding.response.raised
    /\ grounding.calls # <<>>
    /\ IsNone(GetAt(grounding.data, grounding.calls[Len(grounding.calls)].path))
    /\ grounding.todo # <<>>

(***************************************************************************)
(* Current truth (Spec)                                                    *)
(***************************************************************************)
\* C18: between whole operations, every entity with an active edge has as
\* its snapshot the node properties of the call its active edge's source
\* made last for it, and the active edge holds that call's retrieved_at,
\* trust_score and evidence entries.
C18_CurrentTruth ==
    \A n \in DOMAIN store.nodes :
        \A k \in ActiveEdgesOf(store, n) :
            /\ k \in DOMAIN history
            /\ store.nodes[n] = history[k].node_props.vals
            /\ HoldsAssertion(store.edges[k], history[k], TRUE)

\* the condition has the page's rate and the page's edge active, the fake
\* entry's edge beside it inactive
C18_Witness ==
    LET n == Node("Condition", FakeKey)
    IN  /\ n \in DOMAIN store.nodes
        /\ ActiveEdgesOf(store, n) = {<<n, UrlA>>}
        /\ <<n, FakeUrl>> \in DOMAIN store.edges
        /\ store.nodes[n].interest_rate = "2.25%"
        /\ store.nodes[n] # history[<<n, FakeUrl>>].node_props.vals

(***************************************************************************)
(* Records (Spec)                                                          *)
(***************************************************************************)
\* the nodes a MATCH (n:label {node_key: key}) finds
Matching(db, label, node_key, key) ==
    {n \in DOMAIN db.nodes :
        /\ n[1] = label
        /\ node_key \in DOMAIN db.nodes[n]
        /\ db.nodes[n][node_key] = key}

\* C19: whatever whole ingestions and rederive runs have been made, every
\* (label, key) a corroborate call was ever made for has exactly one node,
\* found by its key, every (entity, source) a call was made for has exactly
\* one FROM_SOURCE relationship, and there is no other: what was once
\* created is there, whatever its active flag.
C19_OneRecordKept ==
    /\ DOMAIN store.edges = DOMAIN history
    /\ DOMAIN store.edge_count = DOMAIN history
    /\ \A k \in DOMAIN history :
          LET s == history[k]
          IN  /\ Matching(store, s.label, s.node_key, s.key) = {k[1]}
              /\ store.node_count[k[1]] = 1
              /\ store.edge_count[k] = 1
    /\ \A n \in DOMAIN store.node_count :
          n \in DOMAIN store.nodes /\ store.node_count[n] = 1

\* the condition both the page and the fake entry asserted, each of them
\* more than once or swept since: neither edge is active, both are there
C19_Witness ==
    LET n == Node("Condition", FakeKey)
    IN  /\ n \in DOMAIN store.nodes
        /\ EdgesOf(store, n) = {<<n, UrlA>>, <<n, FakeUrl>>}
        /\ ActiveEdgesOf(store, n) = {}
        /\ \E r \in AdvisesOn(store) : TRUE

(***************************************************************************)
(* Packages without identity (Spec)                                        *)
(***************************************************************************)
\* the package's product or branch has no name left
NoIdentity(package) ==
    IF package \in ProductPackages
    THEN IsNone(package.data.product) \/ IsNone(package.data.product.name)
    ELSE IsNone(package.data.branch) \/ IsNone(package.data.branch.name)

\* C20: ingesting a package whose product or branch has no name leaves the
\* store as it found it; no FROM_SOURCE edge of the package's source changes
\* its is_active flag.
C20_MissingIdentity ==
    \A package \in Packages :
        NoIdentity(package) =>
            LET post == RunStmts(store, PlanOf(package))
            IN  /\ post = store
                /\ \A k \in DOMAIN store.edges :
                      k[2] = package.metadata.url =>
                          post.edges[k].is_active = store.edges[k].is_active

(***************************************************************************)
(* The pipeline run (SpecRun)                                              *)
(***************************************************************************)
\* the run is over: run_ingestion returned or an exception left it
RunOver == run.pc \in {"done", "raised"}

RunPages == {RunTargets[i] : i \in DOMAIN RunTargets}
               \cup {RunFilials[i] : i \in DOMAIN RunFilials}

\* C21: whatever failed for a page (the request, the extraction, the store
\* transaction of its ingestion), the run has asked for every page and has
\* run the inference when it is over.
C21_FailureIsolation ==
    RunOver => (run.fetched = RunPages /\ run.inferred)

\* C22: an ingestion call during which the store failed ends with an
\* exception to its caller; none returns as after a success.
C22_StoreFailureSurfaced ==
    (~IsNone(run.outcome) /\ run.outcome.store_failed) => run.outcome.raised

\* the entries of a FROM_SOURCE edge that are evidence snippets
EvidenceKeys(edge) == DOMAIN edge \ {"retrieved_at", "trust_score", "is_active"}

\* C23: in a run, every evidence snippet on a FROM_SOURCE edge and every
\* node property with such a snippet are the evidence and the value of a
\* fact the verification call accepted: nothing reaches the corroborator
\* before ground_package has been through its tree.
C23_GroundedBeforeIngest ==
    run.pc # "idle" =>
        \A k \in DOMAIN store.edges :
            \A f \in DOMAIN store.nodes[k[1]] :
                (f \o "_evidence") \in EvidenceKeys(store.edges[k]) =>
                    /\ \E fact \in run.verified :
                          fact.evidence = store.edges[k][f \o "_evidence"]
                    /\ store.edges[k].is_active =>
                          \E fact \in run.verified : fact.value = store.nodes[k[1]][f]

\* C28: every FROM_SOURCE edge the store held when run_ingestion was called
\* is in the store when run_ingestion has returned.
C28_HistorySurvivesRun ==
    run.pc = "done" => \A k \in DOMAIN run.before : k \in DOMAIN store.edges

(***************************************************************************)
(* Order of assertions (SpecOrder)                                         *)
(***************************************************************************)
\* assertion k is after assertion j by retrieved_at, then by trust_score
Above(k, j) ==
    \/ history[k].meta.retrieved_at > history[j].meta.retrieved_at
    \/ /\ history[k].meta.retrieved_at = history[j].meta.retrieved_at
       /\ history[k].meta.trust_score > history[j].meta.trust_score

\* C24: of the assertions made about the product, each by another source
\* and in whatever order, the one that is above every other by retrieved_at,
\* then trust_score, has the only active edge, and the snapshot is its node
\* properties.
C24_OrderIndependent ==
    LET n == Node("Product", FakeProductName)
        made == {k \in DOMAIN history : k[1] = n}
    IN  \A k \in made :
            (\A j \in made \ {k} : Above(k, j)) =>
                /\ ActiveEdgesOf(store, n) = {k}
                /\ store.nodes[n] = history[k].node_props.vals

\* all three sources have asserted; the first page's assertion is above the
\* second's by trust score only and above the internal one by time
C24_Witness ==
    LET n == Node("Product", FakeProductName)
        a == <<n, UrlA>>
        b == <<n, UrlB>>
        c == <<n, FakeUrl>>
    IN  /\ {a, b, c} \subseteq DOMAIN history
        /\ history[a].meta.retrieved_at = history[b].meta.retrieved_at
        /\ history[a].meta.trust_score > history[b].meta.trust_score
        /\ history[a].meta.retrieved_at > history[c].meta.retrieved_at
        /\ ActiveEdgesOf(store, n) = {a}
        /\ store.nodes[n].description = "a savings bond"

(***************************************************************************)
(* Age of the current truth (Spec)                                         *)
(***************************************************************************)
\* C25: whenever an entity has an active edge, no edge of that entity to
\* another source has a later retrieved_at than the active one.
C25_TruthNeverOlder ==
    \A n \in DOMAIN store.nodes :
        \A k \in ActiveEdgesOf(store, n) :
            \A j \in EdgesOf(store, n) \ {k} :
                store.edges[j].retrieved_at <= store.edges[k].retrieved_at

(***************************************************************************)
(* Derived relationships and lost assertions (SpecDerive)                  *)
(***************************************************************************)
\* the package asserts something and every entity it asserts ends with the
\* package's edge inactive: each of its corroborate calls decided Lost
AllLost(db, package) ==
    LET stmts == ingest_product_package(package)
        post == RunStmts(db, stmts)
    IN  /\ Asserted(stmts) # {}
        /\ \A n \in Asserted(stmts) : ~post.edges[<<n, package.metadata.url>>].is_active

\* C26: from every store, the inference run after ingesting a package all
\* of whose entities lose leaves the ADVISES_ON relationships the inference
\* leaves without that ingestion.
C26_LostChangesNothing ==
    \A package \in RivalPackages :
        AllLost(store, package) =>
            AdvisesOn(RunStmts(RunStmts(store, ingest_product_package(package)),
                               create_inferred_relationships))
                = AdvisesOn(RunStmts(store, create_inferred_relationships))

(***************************************************************************)
(* Projections (SpecProject)                                               *)
(***************************************************************************)
\* the fields the ontology declares as ProvableFact, and as enum
ClaimFields ==
    {"name", "description", "address", "email", "phone", "type", "interest_rate",
     "question", "answer"}

EnumFields == {"role_type", "risk_class"}

\* the claim fields of the model that grounding left in place
Surviving(model) == {f \in DOMAIN model \cap ClaimFields : IsTagged(model[f], "Fact")}

\* the keys of a dictionary, those mapped to None included
KeysOf(d) == DOMAIN d.vals \cup d.nulls

\* C27: get_node_props has a key for a claim field exactly if the claim
\* survived, with the claim's value; an enum field is mapped to its tag;
\* get_rel_props has exactly the keys field + "_evidence" of the surviving
\* claims, each with the claim's evidence.
C27_Projection ==
    LET model == projection.model
    IN  /\ ~IsNone(projection.node_props) =>
              /\ KeysOf(projection.node_props) \cap ClaimFields = Surviving(model)
              /\ \A f \in Surviving(model) :
                    /\ f \in DOMAIN projection.node_props.vals
                    /\ projection.node_props.vals[f] = model[f].value
              /\ \A f \in DOMAIN model \cap EnumFields :
                    /\ f \in DOMAIN projection.node_props.vals
                    /\ projection.node_props.vals[f] = model[f].value
        /\ ~IsNone(projection.rel_props) =>
              /\ DOMAIN projection.rel_props = {f \o "_evidence" : f \in Surviving(model)}
              /\ \A f \in Surviving(model) :
                    projection.rel_props[f \o "_evidence"] = model[f].evidence


====
